---------------------------- MODULE Spec2Model ----------------------------
(***************************************************************************)
(* A model of resize-images.js: the command-line argument parser           *)
(* (parseArguments), the argument validator (validateArguments), the batch *)
(* orchestrator (resizeImages) and the main execution block.               *)
(*                                                                         *)
(* JavaScript strings are TLA+ strings; a JavaScript value that may be     *)
(* undefined is a record: Str(s) or Undefined.  Array indices are 0-based  *)
(* in the source and 1-based here: args[i] of the source is args[i + 1].   *)
(***************************************************************************)
EXTENDS Integers, Sequences, FiniteSets, TLC

(***************************************************************************)
(* Bounds of the model.                                                    *)
(***************************************************************************)
\* longest token sequence handed to parseArguments
MaxArgs == 3

(***************************************************************************)
(* JavaScript values.                                                      *)
(***************************************************************************)
Undefined == [type |-> "undefined"]

Str(s) == [type |-> "string", value |-> s]

\* JavaScript truthiness of a value that is a string or undefined
Truthy(v) == v.type = "string" /\ v.value # ""

CharAt(s, k) == SubSeq(s, k, k)

UpperCaseLetters == "ABCDEFGHIJKLMNOPQRSTUVWXYZ"

LowerCaseLetters == "abcdefghijklmnopqrstuvwxyz"

\* the lower-case letter of each upper-case letter
LowerOf ==
    [c \in {CharAt(UpperCaseLetters, k) : k \in 1..Len(UpperCaseLetters)} |->
        CharAt(LowerCaseLetters,
               CHOOSE k \in 1..Len(UpperCaseLetters) : CharAt(UpperCaseLetters, k) = c)]

\* String.prototype.toLowerCase on one character (ASCII letters)
LowerChar(c) == IF c \in DOMAIN LowerOf THEN LowerOf[c] ELSE c

RECURSIVE ToLowerCase(_)
ToLowerCase(s) ==
    IF s = "" THEN "" ELSE LowerChar(CharAt(s, 1)) \o ToLowerCase(Tail(s))

(***************************************************************************)
(* JavaScript numbers, as far as parseInt yields them: NaN, an integer     *)
(* kept exactly (Number(n)), a finite integer too long to be kept exactly  *)
(* (Large, of which only the sign is kept) and the two infinities.  Each   *)
(* of them but NaN has a sign.                                             *)
(***************************************************************************)
NaN == [class |-> "NaN"]

Number(n) == [class |-> "integer", value |-> n]

Large(negative) == [class |-> "large", negative |-> negative]

Infinity(negative) == [class |-> "Infinity", negative |-> negative]

\* isNaN(n)
IsNaN(n) == n.class = "NaN"

\* n <= 0 (false for NaN)
AtMostZero(n) ==
    CASE n.class = "NaN"     -> FALSE
      [] n.class = "integer" -> n.value <= 0
      [] OTHER               -> n.negative

(***************************************************************************)
(* parseInt(string) with no radix, as ECMAScript defines it: leading white *)
(* space is skipped, one sign is read, a 0x/0X prefix selects radix 16,    *)
(* then the longest prefix of digits of the radix is the value; no digit   *)
(* at all gives NaN.  The mathematical value is then turned into a Number: *)
(* a value of 2^1024 or more is Infinity.  A decimal string of more than   *)
(* 309 significant digits, or a hexadecimal one of more than 256, is that  *)
(* large; the few strings of exactly that length that round to Infinity    *)
(* are taken for Large.                                                    *)
(***************************************************************************)
HexDigits == "0123456789abcdef"

\* the longest digit string of the radix whose value is kept exactly (it is
\* below 2^31)
MaxExactDigits(radix) == IF radix = 16 THEN 7 ELSE 9

\* the longest digit string of the radix whose value is below 2^1024
MaxFiniteDigits(radix) == IF radix = 16 THEN 256 ELSE 309

IsWhiteSpace(c) == c = " " \/ c = "\t" \/ c = "\n"

RECURSIVE TrimStart(_)
TrimStart(s) ==
    IF s # "" /\ IsWhiteSpace(CharAt(s, 1)) THEN TrimStart(Tail(s)) ELSE s

\* the value of each digit
DigitOf ==
    [c \in {CharAt(HexDigits, k) : k \in 1..Len(HexDigits)} |->
        (CHOOSE k \in 1..Len(HexDigits) : CharAt(HexDigits, k) = c) - 1]

\* the value of character c as a digit of the radix, or -1
DigitValue(c, radix) ==
    LET lc == LowerChar(c)
    IN  IF lc \in DOMAIN DigitOf /\ DigitOf[lc] < radix THEN DigitOf[lc] ELSE -1

\* the positions of s that hold no digit of the radix
NonDigits(s, radix) == {k \in 1..Len(s) : DigitValue(CharAt(s, k), radix) = -1}

\* the longest prefix of s made of digits of the radix
DigitPrefix(s, radix) ==
    LET others == NonDigits(s, radix)
    IN  IF others = {} THEN s
        ELSE SubSeq(s, 1, (CHOOSE k \in others : \A j \in others : k <= j) - 1)

RECURSIVE StripZeros(_)
StripZeros(s) == IF s # "" /\ CharAt(s, 1) = "0" THEN StripZeros(Tail(s)) ELSE s

\* the value of a digit string of the radix, read left to right
RECURSIVE DigitsValue(_, _, _)
DigitsValue(s, radix, acc) ==
    IF s = "" THEN acc
    ELSE DigitsValue(Tail(s), radix, acc * radix + DigitValue(CharAt(s, 1), radix))

\* the digits parseInt reads from s: whether there is none, the number of
\* significant digits (those from the first non-zero digit on) and, when it
\* can be kept exactly, their value
ParseDigits(s, radix) ==
    LET prefix      == DigitPrefix(s, radix)
        significant == StripZeros(prefix)
    IN  [nan         |-> prefix = "",
         significant |-> Len(significant),
         value       |-> IF Len(significant) <= MaxExactDigits(radix)
                         THEN DigitsValue(significant, radix, 0) ELSE 0]

ParseInt(str) ==
    LET t        == TrimStart(str)
        negative == t # "" /\ CharAt(t, 1) = "-"
        signed   == t # "" /\ (CharAt(t, 1) = "-" \/ CharAt(t, 1) = "+")
        u        == IF signed THEN Tail(t) ELSE t
        hex      == Len(u) >= 2 /\ CharAt(u, 1) = "0" /\ LowerChar(CharAt(u, 2)) = "x"
        digits   == IF hex THEN SubSeq(u, 3, Len(u)) ELSE u
        radix    == IF hex THEN 16 ELSE 10
        r        == ParseDigits(digits, radix)
    IN  IF r.nan THEN NaN
        ELSE IF r.significant > MaxFiniteDigits(radix) THEN Infinity(negative)
        ELSE IF r.significant > MaxExactDigits(radix) THEN Large(negative)
        ELSE Number(IF negative THEN 0 - r.value ELSE r.value)

(***************************************************************************)
(* ARGUMENT_DEFINITIONS, in declaration order (the order Object.entries    *)
(* enumerates the keys in).                                                *)
(***************************************************************************)
ARGUMENT_DEFINITIONS ==
    << [key          |-> "input",
        variants     |-> <<"-i", "-input">>,
        errorMessage |-> "Input folder is required. Use -i or -input to specify input folder.",
        required     |-> TRUE],
       [key          |-> "output",
        variants     |-> <<"-o", "-output">>,
        errorMessage |-> "Output folder is required. Use -o or -output to specify output folder.",
        required     |-> TRUE],
       [key          |-> "size",
        variants     |-> <<"-s", "-size">>,
        errorMessage |-> "Size must be a valid number. Use -s or -size to specify output width.",
        required     |-> FALSE],
       [key          |-> "format",
        variants     |-> <<"-f", "-format">>,
        errorMessage |-> "Format must be jpg, png, or webp. Use -f or -format to specify output format.",
        required     |-> FALSE] >>

\* ARGUMENT_DEFINITIONS.size.defaultValue
SizeDefaultValue == 350

Keys == {ARGUMENT_DEFINITIONS[k].key : k \in 1..Len(ARGUMENT_DEFINITIONS)}

Includes(seq, x) == \E k \in 1..Len(seq) : seq[k] = x

\* options[key]: undefined when the key is absent
Get(opts, key) == IF key \in DOMAIN opts THEN opts[key] ELSE Undefined

\* options[key] = v
Put(opts, key, v) ==
    [k \in DOMAIN opts \cup {key} |-> IF k = key THEN v ELSE opts[k]]

\* the empty object {}
EmptyOptions == [k \in {} |-> Undefined]


(***************************************************************************)
(* Inputs.                                                                 *)
(***************************************************************************)
\* the tokens the bounded command lines are made of: every alias, a token
\* that is no alias, a plain value and the empty string
Tokens ==
    {"-i", "-input", "-o", "-output", "-s", "-size", "-f", "-format",
     "-unknown", "x", ""}

RECURSIVE SeqsUpTo(_, _)
SeqsUpTo(S, n) ==
    IF n = 0 THEN {<<>>}
    ELSE LET shorter == SeqsUpTo(S, n - 1)
         IN  shorter \cup {Append(q, t) : q \in {r \in shorter : Len(r) = n - 1}, t \in S}

\* command lines of the test suite's parseArguments cases
TestCommandLines ==
    { <<"-i", "/input/folder", "-o", "/output/folder">>,
      <<"-input", "/input/folder", "-output", "/output/folder">>,
      <<"-i", "/input/folder", "-unknown", "value", "-o", "/output/folder">>,
      <<"-i", "/input/folder", "-o", "/output/folder", "-s", "500">>,
      <<"-i", "/input/folder", "-o", "/output/folder", "-f", "jpg">>,
      <<"-input", "/input/folder", "-output", "/output/folder", "-size", "600",
        "-format", "webp">> }

\* longer command lines with a repeated flag and with flags in value position
OtherCommandLines ==
    { <<"-i", "a", "-i", "b", "-o", "c">>,
      <<"-i", "-o", "-s", "-f", "png">>,
      <<"-o", "out", "-unknown", "-unknown", "-s">> }

ArgvSet == SeqsUpTo(Tokens, MaxArgs) \cup TestCommandLines \cup OtherCommandLines

\* the values validateArguments is called with, per key; Undefined is a key
\* bound to undefined
FolderValues == {"", "x", "/input/folder"}

\* s repeated n times
RECURSIVE Repeat(_, _)
Repeat(s, n) ==
    IF n = 0 THEN ""
    ELSE LET half == Repeat(s, n \div 2)
         IN  half \o half \o (IF n % 2 = 1 THEN s ELSE "")

\* a size of 310 digits: a decimal number above the largest finite Number
HugeSize == Repeat("9", 310)

SizeValues ==
    {"", "0", "-100", "abc", "invalid", "500", "1", "-0", "12px", " 7", "+5", "0x1F", "0x", "-",
     "12345678901", HugeSize}

FormatValues == {"", "jpg", "png", "webp", "JPG", "Png", "WEBP", "gif", "jpeg", "jpg "}

ValuesOf(key) ==
    {Undefined} \cup
    {Str(s) : s \in CASE key = "size"   -> SizeValues
                      [] key = "format" -> FormatValues
                      [] OTHER          -> FolderValues}

\* every object with some of the four keys, each bound to one of its values
OptionMappings ==
    UNION { {[k \in D |-> IF k = "input" THEN vi ELSE IF k = "output" THEN vo
                          ELSE IF k = "size" THEN vs ELSE vf] :
                vi \in ValuesOf("input"), vo \in ValuesOf("output"),
                vs \in ValuesOf("size"), vf \in ValuesOf("format")} : D \in SUBSET Keys }

(***************************************************************************)
(* State.                                                                  *)
(***************************************************************************)
VARIABLES
    entry,        \* the exported function under call
    pc,           \* where the call stands
    args,         \* parseArguments: the token sequence
    i,            \* parseArguments: the loop index (0-based, as in the source)
    options,      \* the options object
    error,        \* what the call threw: [threw |-> FALSE] or [threw |-> TRUE, message |-> m]
    call,         \* resizeImages: inputFolder, outputFolder, outputWidth, outputFormat
    dirExists,    \* the file system: the output folder exists
    mkdirCalled,  \* fs.mkdirSync was called
    listing,      \* fs.readdir: "idle", "pending", "done" or "failed"
    files,        \* the entries fs.readdir delivered
    imageFiles,   \* the entries that passed the filter
    execCalls,    \* the commands handed to exec, in the order of the calls
    converters,   \* the child process of each exec call: "running" or "exited"
    tasks,        \* resizePromises: the state of each per-file promise
    all,          \* the promise of Promise.all(resizePromises)
    promise,      \* the promise resizeImages returned
    firstFailed,  \* history: the task whose exec callback was the first to get an error, and
                  \* the message of that error; task 0 when there is none
    lastCompleted, \* history: the task whose exec callback ran last; 0 when none has run
    stdout,       \* main: the lines written with console.log
    stderr,       \* main: the lines written with console.error
    exitCode      \* main: the exit code of the process, once pc = "exited"

argVars == <<args, i, options>>

fsVars == <<dirExists, mkdirCalled, listing, files>>

taskVars ==
    <<imageFiles, execCalls, converters, tasks, all, promise, firstFailed, lastCompleted>>

resizeVars == <<call, dirExists, mkdirCalled, listing, files, imageFiles, execCalls,
                converters, tasks, all, promise, firstFailed, lastCompleted>>

mainVars == <<stdout, stderr, exitCode>>

vars == <<entry, pc, args, i, options, error, call, dirExists, mkdirCalled, listing, files,
          imageFiles, execCalls, converters, tasks, all, promise, firstFailed, lastCompleted,
          stdout, stderr, exitCode>>

NoError == [threw |-> FALSE]

Thrown(m) == [threw |-> TRUE, message |-> m]

(***************************************************************************)
(* parseArguments: one action per iteration of the outer for loop.         *)
(***************************************************************************)
\* the inner for loop: the position in ARGUMENT_DEFINITIONS of the first
\* definition whose variants include arg, 0 when there is none
MatchedDefinition(arg) ==
    IF \E k \in 1..Len(ARGUMENT_DEFINITIONS) : Includes(ARGUMENT_DEFINITIONS[k].variants, arg)
    THEN CHOOSE k \in 1..Len(ARGUMENT_DEFINITIONS) :
            /\ Includes(ARGUMENT_DEFINITIONS[k].variants, arg)
            /\ \A j \in 1..(k - 1) : ~Includes(ARGUMENT_DEFINITIONS[j].variants, arg)
    ELSE 0

\* a parser that binds the empty string when there is no token after the flag
ValueAfterOrEmpty(a, idx) == IF idx + 2 <= Len(a) THEN Str(a[idx + 2]) ELSE Str("")

\* args[i + 1] of the source: undefined past the end of the array
ValueAfter(a, idx) == IF idx + 2 <= Len(a) THEN Str(a[idx + 2]) ELSE Undefined

\* a parser that leaves out the i++ of the if body
SkipValueForgotten(idx) == idx + 1

\* i++ of the if body plus i++ of the for statement
SkipValue(idx) == idx + 2

\* an iteration whose token is a variant of a definition
ParseFlag ==
    /\ pc = "parse"
    /\ i < Len(args)
    /\ MatchedDefinition(args[i + 1]) # 0
    /\ options' = Put(options, ARGUMENT_DEFINITIONS[MatchedDefinition(args[i + 1])].key,
                      ValueAfter(args, i))
    /\ i' = SkipValue(i)
    /\ UNCHANGED <<entry, pc, args, error, resizeVars, mainVars>>

\* a parser that steps over the token after an unknown token too
NextTokenSwallowsValue(idx) == idx + 2

\* the i++ of the for statement alone
NextToken(idx) == idx + 1

\* an iteration whose token is no variant of any definition
ParseSkip ==
    /\ pc = "parse"
    /\ i < Len(args)
    /\ MatchedDefinition(args[i + 1]) = 0
    /\ i' = NextToken(i)
    /\ UNCHANGED <<entry, pc, args, options, error, resizeVars, mainVars>>

\* the loop condition fails: return options (to line 190 in the main block)
ParseReturn ==
    /\ pc = "parse"
    /\ i >= Len(args)
    /\ pc' = IF entry = "main" THEN "validate" ELSE "done"
    /\ UNCHANGED <<entry, args, i, options, error, resizeVars, mainVars>>

(***************************************************************************)
(* validateArguments: the loop over Object.entries(ARGUMENT_DEFINITIONS),  *)
(* from definition k on; the first throw ends it.                          *)
(***************************************************************************)
validFormats == {"jpg", "png", "webp"}

\* a required check that tests for undefined only
MissingRequiredUndefinedOnly(def, v) == def.required /\ v = Undefined

\* if (definition.required && !options[key])
MissingRequired(def, v) == def.required /\ ~Truthy(v)

\* a size check that lets zero through
BadSizeNegativeOnly(key, v) ==
    /\ key = "size"
    /\ Truthy(v)
    /\ LET sizeValue == ParseInt(v.value)
       IN  IsNaN(sizeValue) \/ (AtMostZero(sizeValue) /\ sizeValue # Number(0))

\* if (key === 'size' && options[key]) ... isNaN(sizeValue) || sizeValue <= 0
BadSize(key, v) ==
    /\ key = "size"
    /\ Truthy(v)
    /\ LET sizeValue == ParseInt(v.value)
       IN  IsNaN(sizeValue) \/ AtMostZero(sizeValue)

\* a format check that compares without lower-casing
BadFormatCaseSensitive(key, v) ==
    /\ key = "format"
    /\ v # Undefined
    /\ v.value \notin validFormats

\* if (key === 'format' && options[key] !== undefined) ... !validFormats.includes(...)
BadFormat(key, v) ==
    /\ key = "format"
    /\ v # Undefined
    /\ ToLowerCase(v.value) \notin validFormats

RECURSIVE ValidateFrom(_, _)
ValidateFrom(opts, k) ==
    IF k > Len(ARGUMENT_DEFINITIONS) THEN NoError
    ELSE LET definition == ARGUMENT_DEFINITIONS[k]
             key        == definition.key
         IN  IF MissingRequired(definition, Get(opts, key))
             THEN Thrown(definition.errorMessage)
             ELSE IF BadSize(key, Get(opts, key))
             THEN Thrown("Size must be a positive number.")
             ELSE IF BadFormat(key, Get(opts, key))
             THEN Thrown("Format must be jpg, png, or webp.")
             ELSE ValidateFrom(opts, k + 1)

\* a validator that checks size and format before the required fields
ValidateOptionalFirst(opts) ==
    IF BadSize("size", Get(opts, "size")) THEN Thrown("Size must be a positive number.")
    ELSE IF BadFormat("format", Get(opts, "format"))
    THEN Thrown("Format must be jpg, png, or webp.")
    ELSE ValidateFrom(opts, 1)

validateArguments(opts) == ValidateFrom(opts, 1)

(***************************************************************************)
(* The output of the main block.  The lines are kept without the colour    *)
(* codes; the help text is one line.                                       *)
(***************************************************************************)
\* console.error(colorize.error('ERROR:'), error.message)
ErrorLine(message) == [kind |-> "error", text |-> "ERROR: " \o message]

\* console.error(generateHelpText())
HelpLine == [kind |-> "help", text |-> "Usage: node resize-images.js [options]"]

\* console.log(colorize.success(result))
SuccessLine(result) == [kind |-> "success", text |-> result]

\* console.log(colorize.info(results))
InfoLine(results) == [kind |-> "info", text |-> results]

\* a catch block that prints no help text
MainCatchWithoutHelp(message) ==
    /\ stderr' = Append(stderr, ErrorLine(message))
    /\ exitCode' = 1
    /\ UNCHANGED stdout

\* the catch block of the try statement of the main block
MainCatch(message) ==
    /\ stderr' = stderr \o <<ErrorLine(message), HelpLine>>
    /\ exitCode' = 1
    /\ UNCHANGED stdout

\* validateArguments(options); in the main block a throw goes to the catch
\* block
Validate ==
    /\ pc = "validate"
    /\ error' = validateArguments(options)
    /\ IF entry # "main"
       THEN pc' = "done" /\ UNCHANGED mainVars
       ELSE IF validateArguments(options).threw
       THEN pc' = "exited" /\ MainCatch(validateArguments(options).message)
       ELSE pc' = "prepare" /\ UNCHANGED mainVars
    /\ UNCHANGED <<entry, args, i, options, resizeVars>>

(***************************************************************************)
(* resizeImages: strings, paths and promises.                              *)
(***************************************************************************)
Null == [type |-> "null"]

\* a JavaScript array
Array(items) == [type |-> "array", items |-> items]

\* new Error(message)
Error(m) == [type |-> "Error", message |-> m]

\* the states of a promise
Unsettled == [state |-> "pending"]

Fulfilled(v) == [state |-> "fulfilled", value |-> v]

Rejected(e) == [state |-> "rejected", reason |-> e]

EndsWith(s, suffix) ==
    Len(s) >= Len(suffix) /\ SubSeq(s, Len(s) - Len(suffix) + 1, Len(s)) = suffix

Contains(s, part) ==
    \E k \in 1..(Len(s) - Len(part) + 1) : SubSeq(s, k, k + Len(part) - 1) = part

\* a filter whose pattern has no $ anchor
IsImageFileUnanchored(f) ==
    LET lower == ToLowerCase(f)
    IN  Contains(lower, ".jpg") \/ Contains(lower, ".jpeg") \/ Contains(lower, ".png")

\* a filter whose pattern lacks the png alternative
IsImageFileJpegOnly(f) ==
    LET lower == ToLowerCase(f)
    IN  EndsWith(lower, ".jpg") \/ EndsWith(lower, ".jpeg")

\* /\.(jpe?g|png)$/i.test(f)
IsImageFile(f) ==
    LET lower == ToLowerCase(f)
    IN  EndsWith(lower, ".jpg") \/ EndsWith(lower, ".jpeg") \/ EndsWith(lower, ".png")

\* files.filter(f => ...)
RECURSIVE Filter(_)
Filter(fs) ==
    IF fs = <<>> THEN <<>>
    ELSE IF IsImageFile(Head(fs)) THEN <<Head(fs)>> \o Filter(Tail(fs))
    ELSE Filter(Tail(fs))

\* the position of the last "." of s at or before position k, 0 when there
\* is none
RECURSIVE LastDotUpTo(_, _)
LastDotUpTo(s, k) ==
    IF k = 0 THEN 0
    ELSE IF CharAt(s, k) = "." THEN k
    ELSE LastDotUpTo(s, k - 1)

\* the position of the last "." of s, 0 when it has none
LastDot(s) == LastDotUpTo(s, Len(s))

\* path.parse(file).name for a directory entry (no separator in it): the
\* entry up to its last ".", the whole entry when it has no "." or none but
\* its first character, or is ".."
NameWithoutExt(file) ==
    IF LastDot(file) <= 1 \/ file = ".." THEN file
    ELSE SubSeq(file, 1, LastDot(file) - 1)

\* let outputFilename = file; if (outputFormat) { ... }
OutputFilename(file, outputFormat) ==
    IF Truthy(outputFormat)
    THEN NameWithoutExt(file) \o "." \o outputFormat.value
    ELSE file

\* path.join(folder, entry) for a normalized, non-empty relative folder and a
\* directory entry
PathJoin(folder, name) == folder \o "/" \o name

\* the command of one file, kept as its parts: the input path, the scale
\* width, the -f flag (Null when there is none) and the output path
Command(c, file) ==
    [file       |-> file,
     inputPath  |-> PathJoin(c.inputFolder, file),
     scale      |-> c.outputWidth,
     formatFlag |-> IF Truthy(c.outputFormat) THEN c.outputFormat ELSE Null,
     outputPath |-> PathJoin(c.outputFolder, OutputFilename(file, c.outputFormat))]

\* resolveFile(`Resized ${file} -> ${outputPath}`)
ResizedMessage(cmd) == "Resized " \o cmd.file \o " -> " \o cmd.outputPath

\* rejectFile(new Error(`Error resizing ${file}: ${error.message}`))
ResizeError(cmd, message) == Error("Error resizing " \o cmd.file \o ": " \o message)

\* resolve('No JPG or PNG images found in folder.')
NoImagesResult == Fulfilled(Str("No JPG or PNG images found in folder."))

\* a readdir callback that takes an error for an empty listing
ReadErrorAsEmpty(message) == NoImagesResult

\* reject(new Error(`Error reading folder: ${err.message}`))
ReadError(message) == Rejected(Error("Error reading folder: " \o message))

\* an aggregation that does not react to the rejection of an element
AllOnRejectedIgnored(p, reason) == p

\* an aggregation that takes the reason of every rejection, the later ones too
AllOnRejectedOverwrites(p, reason) == Rejected(reason)

\* Promise.all: the reaction to the rejection of an element
AllOnRejected(p, reason) ==
    IF p.state = "pending" THEN Rejected(reason) ELSE p

\* an aggregation that collects the values in the order of their arrival
AllOnFulfilledInArrivalOrder(p, k, v) ==
    IF p.state # "pending" THEN p
    ELSE LET values == [p.values EXCEPT ![Len(p.values) - p.remaining + 1] = v]
         IN  IF p.remaining = 1
             THEN Fulfilled(Array(values))
             ELSE [p EXCEPT !.values = values, !.remaining = p.remaining - 1]

\* an aggregation that is fulfilled by the first element to be fulfilled
AllOnFulfilledByFirst(p, k, v) ==
    IF p.state # "pending" THEN p
    ELSE Fulfilled(Array([p.values EXCEPT ![k] = v]))

\* Promise.all: the reaction to the fulfilment of element k: the value goes
\* to slot k, and the last one to arrive fulfils the promise with the values
AllOnFulfilled(p, k, v) ==
    IF p.state # "pending" THEN p
    ELSE LET values == [p.values EXCEPT ![k] = v]
         IN  IF p.remaining = 1
             THEN Fulfilled(Array(values))
             ELSE [p EXCEPT !.values = values, !.remaining = p.remaining - 1]

\* a chain without .then(results => resolve(results))
AdoptRejectionOnly(outer, p) ==
    IF outer.state # "pending" THEN outer
    ELSE IF p.state = "rejected" THEN Rejected(p.reason)
    ELSE outer

\* .then(results => resolve(results)).catch(error => reject(error)) on a
\* pending outer promise: it takes the state of Promise.all's promise
Adopt(outer, p) ==
    IF outer.state # "pending" THEN outer
    ELSE IF p.state = "fulfilled" THEN Fulfilled(p.value)
    ELSE IF p.state = "rejected" THEN Rejected(p.reason)
    ELSE outer

(***************************************************************************)
(* resizeImages: the inputs of the environment.                            *)
(***************************************************************************)
\* the most entries a directory listing holds
MaxFiles == 3

FileNames == {"a.jpg", "a.png", "B.JPEG", "a.png.txt", ".png"}

RECURSIVE ListingsUpTo(_)
ListingsUpTo(n) ==
    IF n = 0 THEN {<<>>}
    ELSE LET shorter == ListingsUpTo(n - 1)
         IN  shorter \cup
             {Append(q, f) : q \in {r \in shorter : Len(r) = n - 1},
                             f \in FileNames}

\* a directory holds an entry once
Listings ==
    {l \in ListingsUpTo(MaxFiles) : \A j, k \in 1..Len(l) : j # k => l[j] # l[k]}

ReaddirErrors == {"ENOENT: no such file or directory"}

ExecErrors == {"Command failed: ffmpeg", "spawn /bin/sh EAGAIN"}

Calls ==
    [inputFolder  : {"in"},
     outputFolder : {"out"},
     outputWidth  : {Number(SizeDefaultValue)},
     outputFormat : {Null, Str("jpg"), Str("png"), Str("webp")}]

NoCall ==
    [inputFolder |-> "", outputFolder |-> "", outputWidth |-> Number(0), outputFormat |-> Null]

\* the command lines the main block is run with
MainCommandLines ==
    { <<"-i", "in", "-o", "out">>,
      <<"-input", "in", "-output", "out", "-size", "12px", "-format", "PNG">>,
      <<"-o", "out", "-i", "in", "-f", "webp", "-s">>,
      <<"-i", "in", "-o", "out", "-s", "", "-f", "jpg">>,
      <<"-i", "in", "-o", "out", "-s", HugeSize>>,
      <<>>,
      <<"-i", "in", "-o">>,
      <<"-o", "out", "-s", "abc">>,
      <<"-i", "in", "-o", "out", "-s", "0">>,
      <<"-i", "in", "-o", "out", "-s", "-5", "-f", "gif">>,
      <<"-i", "in", "-o", "out", "-f", "gif">>,
      <<"-i", "in", "-o", "out", "-f", "">>,
      <<"-i", "in", "-o", "out", "-f">>,
      <<"-o", "out", "-i">>,
      <<"-o">> }

(***************************************************************************)
(* The main block after validateArguments.                                 *)
(***************************************************************************)
\* lines 193-196: the arguments of resizeImages
MainArguments(opts) ==
    [inputFolder  |-> Get(opts, "input").value,
     outputFolder |-> Get(opts, "output").value,
     outputWidth  |-> IF Truthy(Get(opts, "size"))
                      THEN ParseInt(Get(opts, "size").value)
                      ELSE Number(SizeDefaultValue),
     outputFormat |-> IF Truthy(Get(opts, "format"))
                      THEN Str(ToLowerCase(Get(opts, "format").value))
                      ELSE Null]

\* lines 193-198: resizeImages is called
MainCallsResize ==
    /\ pc = "prepare"
    /\ call' = MainArguments(options)
    /\ pc' = "resize"
    /\ UNCHANGED <<entry, argVars, error, fsVars, taskVars, mainVars>>

\* handlers whose catch handler neither prints nor sets the exit code
MainHandlersFailureUnreported(p) ==
    IF entry = "main" /\ p.state = "fulfilled"
    THEN /\ stdout' = stdout \o
                (IF p.value.type = "array"
                 THEN [k \in 1..Len(p.value.items) |-> SuccessLine(p.value.items[k].value)]
                 ELSE <<InfoLine(p.value.value)>>)
         /\ exitCode' = 0
         /\ UNCHANGED stderr
    ELSE UNCHANGED mainVars

\* lines 199-209: the then and catch handlers, run when the promise p that
\* resizeImages returned settles.  A fulfilled promise leaves nothing to wait
\* for and the process ends with code 0; the catch handler calls
\* process.exit(1).
MainHandlers(p) ==
    IF entry = "main" /\ p.state = "fulfilled"
    THEN /\ stdout' = stdout \o
                (IF p.value.type = "array"
                 THEN [k \in 1..Len(p.value.items) |-> SuccessLine(p.value.items[k].value)]
                 ELSE <<InfoLine(p.value.value)>>)
         /\ exitCode' = 0
         /\ UNCHANGED stderr
    ELSE IF entry = "main" /\ p.state = "rejected"
    THEN /\ stderr' = Append(stderr, ErrorLine(p.reason.message))
         /\ exitCode' = 1
         /\ UNCHANGED stdout
    ELSE UNCHANGED mainVars

\* a run that takes no further callback once the promise has settled
AfterCallbackStopsAtOutcome(p) ==
    IF p.state = "pending" THEN "exec" ELSE IF entry = "main" THEN "exited" ELSE "done"

\* where the run stands after an exec callback that left the promise in
\* state p: the process of the main block is gone once the promise settled
AfterCallback(p) ==
    IF entry = "main" /\ p.state # "pending" THEN "exited" ELSE "exec"

(***************************************************************************)
(* resizeImages: the actions.                                              *)
(***************************************************************************)
\* lines 132-137: the folder is ensured, the promise is created and
\* fs.readdir is called
ResizeImagesCalled ==
    /\ pc = "resize"
    /\ dirExists' = TRUE
    /\ mkdirCalled' = ~dirExists
    /\ listing' = "pending"
    /\ promise' = Unsettled
    /\ pc' = "readdir"
    /\ UNCHANGED <<entry, argVars, error, call, files, imageFiles, execCalls, converters,
                   tasks, all, firstFailed, lastCompleted, mainVars>>

\* fs.mkdirSync throws: resizeImages throws before it creates the promise;
\* in the main block the throw goes to the catch block
MkdirThrows ==
    /\ pc = "resize"
    /\ ~dirExists
    /\ mkdirCalled' = TRUE
    /\ error' = Thrown("EACCES: permission denied, mkdir")
    /\ IF entry = "main"
       THEN pc' = "exited" /\ MainCatch("EACCES: permission denied, mkdir")
       ELSE pc' = "threw" /\ UNCHANGED mainVars
    /\ UNCHANGED <<entry, argVars, call, dirExists, listing, files, taskVars>>

\* the readdir callback with err set
ReaddirFailed ==
    /\ pc = "readdir"
    /\ \E message \in ReaddirErrors :
        /\ promise' = ReadError(message)
        /\ MainHandlers(ReadError(message))
    /\ listing' = "failed"
    /\ pc' = IF entry = "main" THEN "exited" ELSE "done"
    /\ UNCHANGED <<entry, argVars, error, call, dirExists, mkdirCalled, files, imageFiles,
                   execCalls, converters, tasks, all, firstFailed, lastCompleted>>

\* the readdir callback with a listing none of whose entries passes the filter
ReaddirNoImages ==
    /\ pc = "readdir"
    /\ \E fs \in Listings :
        /\ Len(Filter(fs)) = 0
        /\ files' = fs
        /\ imageFiles' = Filter(fs)
    /\ listing' = "done"
    /\ promise' = NoImagesResult
    /\ MainHandlers(NoImagesResult)
    /\ pc' = IF entry = "main" THEN "exited" ELSE "done"
    /\ UNCHANGED <<entry, argVars, error, call, dirExists, mkdirCalled, execCalls, converters,
                   tasks, all, firstFailed, lastCompleted>>

\* the readdir callback with image files: one promise and one exec call per
\* image file, in the order of the listing, then Promise.all
ReaddirDispatch ==
    /\ pc = "readdir"
    /\ \E fs \in Listings :
        LET images == Filter(fs)
        IN  /\ Len(images) # 0
            /\ files' = fs
            /\ imageFiles' = images
            /\ execCalls' = [k \in 1..Len(images) |-> Command(call, images[k])]
            /\ converters' = [k \in 1..Len(images) |-> "running"]
            /\ tasks' = [k \in 1..Len(images) |-> Unsettled]
            /\ all' = [state     |-> "pending",
                       values    |-> [k \in 1..Len(images) |-> Undefined],
                       remaining |-> Len(images)]
    /\ listing' = "done"
    /\ pc' = "exec"
    /\ UNCHANGED <<entry, argVars, error, call, dirExists, mkdirCalled, promise, firstFailed,
                   lastCompleted, mainVars>>

\* the child process of task k exits with an error: the exec callback with
\* error set, and the promise reactions that run before the next callback
ConversionFailed(k) ==
    /\ pc = "exec"
    /\ tasks[k].state = "pending"
    /\ converters' = [converters EXCEPT ![k] = "exited"]
    /\ \E message \in ExecErrors :
        LET reason == ResizeError(execCalls[k], message)
        IN  /\ tasks' = [tasks EXCEPT ![k] = Rejected(reason)]
            /\ all' = AllOnRejected(all, reason)
            /\ promise' = Adopt(promise, AllOnRejected(all, reason))
            /\ MainHandlers(Adopt(promise, AllOnRejected(all, reason)))
            /\ pc' = AfterCallback(Adopt(promise, AllOnRejected(all, reason)))
            /\ firstFailed' = IF firstFailed.task = 0
                              THEN [task |-> k, message |-> message]
                              ELSE firstFailed
    /\ lastCompleted' = k
    /\ UNCHANGED <<entry, argVars, error, call, fsVars, imageFiles, execCalls>>

\* the child process of task k exits with code 0: the exec callback with no
\* error, and the promise reactions that run before the next callback
ConversionSucceeded(k) ==
    /\ pc = "exec"
    /\ tasks[k].state = "pending"
    /\ converters' = [converters EXCEPT ![k] = "exited"]
    /\ LET value == Str(ResizedMessage(execCalls[k]))
       IN  /\ tasks' = [tasks EXCEPT ![k] = Fulfilled(value)]
           /\ all' = AllOnFulfilled(all, k, value)
           /\ promise' = Adopt(promise, AllOnFulfilled(all, k, value))
           /\ MainHandlers(Adopt(promise, AllOnFulfilled(all, k, value)))
           /\ pc' = AfterCallback(Adopt(promise, AllOnFulfilled(all, k, value)))
    /\ lastCompleted' = k
    /\ UNCHANGED <<entry, argVars, error, call, fsVars, imageFiles, execCalls, firstFailed>>

\* the child process of task k exits after process.exit(1) ended the main
\* block: nothing stops the child processes, and no callback is left to run
ConverterOrphanExits(k) ==
    /\ entry = "main"
    /\ pc = "exited"
    /\ converters[k] = "running"
    /\ converters' = [converters EXCEPT ![k] = "exited"]
    /\ UNCHANGED <<entry, pc, argVars, error, call, fsVars, imageFiles, execCalls, tasks, all,
                   promise, firstFailed, lastCompleted, mainVars>>

(***************************************************************************)
(* The calls.                                                              *)
(***************************************************************************)
NoFailure == [task |-> 0, message |-> ""]

ResizeIdle ==
    /\ call = NoCall
    /\ dirExists = FALSE
    /\ mkdirCalled = FALSE
    /\ listing = "idle"
    /\ files = <<>>
    /\ imageFiles = <<>>
    /\ execCalls = <<>>
    /\ converters = <<>>
    /\ tasks = <<>>
    /\ all = Unsettled
    /\ promise = [state |-> "none"]
    /\ firstFailed = NoFailure
    /\ lastCompleted = 0
    /\ stdout = <<>>
    /\ stderr = <<>>
    /\ exitCode = 0

\* parseArguments(args): const options = {}; let i = 0
InitParseArguments ==
    /\ entry = "parseArguments"
    /\ pc = "parse"
    /\ args \in ArgvSet
    /\ i = 0
    /\ options = EmptyOptions
    /\ error = NoError
    /\ ResizeIdle

\* validateArguments(options)
InitValidateArguments ==
    /\ entry = "validateArguments"
    /\ pc = "validate"
    /\ args = <<>>
    /\ i = 0
    /\ options \in OptionMappings
    /\ error = NoError
    /\ ResizeIdle

\* resizeImages(inputFolder, outputFolder, outputWidth, outputFormat)
InitResizeImages ==
    /\ entry = "resizeImages"
    /\ pc = "resize"
    /\ args = <<>>
    /\ i = 0
    /\ options = EmptyOptions
    /\ error = NoError
    /\ call \in Calls
    /\ dirExists \in BOOLEAN
    /\ mkdirCalled = FALSE
    /\ listing = "idle"
    /\ files = <<>>
    /\ imageFiles = <<>>
    /\ execCalls = <<>>
    /\ converters = <<>>
    /\ tasks = <<>>
    /\ all = Unsettled
    /\ promise = [state |-> "none"]
    /\ firstFailed = NoFailure
    /\ lastCompleted = 0
    /\ stdout = <<>>
    /\ stderr = <<>>
    /\ exitCode = 0

\* node resize-images.js args: parseArguments() on process.argv.slice(2)
InitMain ==
    /\ entry = "main"
    /\ pc = "parse"
    /\ args \in MainCommandLines
    /\ i = 0
    /\ options = EmptyOptions
    /\ error = NoError
    /\ call = NoCall
    /\ dirExists \in BOOLEAN
    /\ mkdirCalled = FALSE
    /\ listing = "idle"
    /\ files = <<>>
    /\ imageFiles = <<>>
    /\ execCalls = <<>>
    /\ converters = <<>>
    /\ tasks = <<>>
    /\ all = Unsettled
    /\ promise = [state |-> "none"]
    /\ firstFailed = NoFailure
    /\ lastCompleted = 0
    /\ stdout = <<>>
    /\ stderr = <<>>
    /\ exitCode = 0

Init == InitParseArguments \/ InitValidateArguments \/ InitResizeImages \/ InitMain

Next ==
    \/ ParseFlag
    \/ ParseSkip
    \/ ParseReturn
    \/ Validate
    \/ MainCallsResize
    \/ ResizeImagesCalled
    \/ MkdirThrows
    \/ ReaddirFailed
    \/ ReaddirNoImages
    \/ ReaddirDispatch
    \/ \E k \in 1..Len(tasks) : ConversionFailed(k)
    \/ \E k \in 1..Len(tasks) : ConversionSucceeded(k)
    \/ \E k \in 1..Len(tasks) : ConverterOrphanExits(k)

Spec == Init /\ [][Next]_vars

\* the readdir callback, whatever it is called with
ReaddirCallback == ReaddirFailed \/ ReaddirNoImages \/ ReaddirDispatch

\* the exec callback of task k, whatever it is called with
ExecCallback(k) ==
    /\ k \in 1..Len(tasks)
    /\ ConversionFailed(k) \/ ConversionSucceeded(k)

\* The runs in which the listing completes and every child process exits:
\* the event loop then calls the readdir callback and the exec callback of
\* every task, as long as the process lives.
FairSpec ==
    /\ Init
    /\ [][Next]_vars
    /\ WF_vars(ReaddirCallback)
    /\ \A k \in 1..MaxFiles : WF_vars(ExecCallback(k))

(***************************************************************************)
(* Properties of validateArguments.                                        *)
(***************************************************************************)
ValidateReturned == entry = "validateArguments" /\ pc = "done"

InputRequiredMessage == "Input folder is required. Use -i or -input to specify input folder."

OutputRequiredMessage == "Output folder is required. Use -o or -output to specify output folder."

SizeMessage == "Size must be a positive number."

FormatMessage == "Format must be jpg, png, or webp."

\* the key is absent (or bound to undefined) or bound to the empty string
AbsentOrEmpty(o, key) ==
    key \notin DOMAIN o \/ o[key] = Undefined \/ o[key] = Str("")

\* the key is bound to a string (the empty string included)
Present(o, key) == key \in DOMAIN o /\ o[key] # Undefined

SizeInvalid(o) ==
    /\ ~AbsentOrEmpty(o, "size")
    /\ LET n == ParseInt(o["size"].value)
       IN  n.class = "NaN" \/ (n.class = "integer" /\ n.value <= 0)
                           \/ (n.class \in {"large", "Infinity"} /\ n.negative)

FormatInvalid(o) ==
    /\ Present(o, "format")
    /\ ToLowerCase(o["format"].value) \notin {"jpg", "png", "webp"}

\* the error of the earliest invalid field in the order input, output, size, format
FirstViolation(o) ==
    IF AbsentOrEmpty(o, "input") THEN Thrown(InputRequiredMessage)
    ELSE IF AbsentOrEmpty(o, "output") THEN Thrown(OutputRequiredMessage)
    ELSE IF SizeInvalid(o) THEN Thrown(SizeMessage)
    ELSE IF FormatInvalid(o) THEN Thrown(FormatMessage)
    ELSE NoError

\* C1: validateArguments surfaces exactly one error, that of the first invalid
\* field in the order input, output, size, format; {} raises the input-required
\* message, a missing output with an invalid size the output-required message,
\* an invalid size with an invalid format the size message.
C1_FirstViolationSurfaced ==
    ValidateReturned =>
        /\ error = FirstViolation(options)
        /\ options = EmptyOptions => error = Thrown(InputRequiredMessage)
        /\ (~AbsentOrEmpty(options, "input") /\ AbsentOrEmpty(options, "output")
                /\ SizeInvalid(options))
           => error = Thrown(OutputRequiredMessage)
        /\ (~AbsentOrEmpty(options, "input") /\ ~AbsentOrEmpty(options, "output")
                /\ SizeInvalid(options) /\ FormatInvalid(options))
           => error = Thrown(SizeMessage)

\* a call with an invalid size and an invalid format, input and output valid
C1_Witness ==
    /\ ValidateReturned
    /\ options = [input |-> Str("x"), output |-> Str("x"), size |-> Str("abc"),
                  format |-> Str("gif")]
    /\ error = Thrown(SizeMessage)

\* C2: a required entry (input, output) fails with its configured message if
\* and only if its key is absent or bound to the empty string, the earlier
\* entries being valid; with input and output non-empty and size and format
\* absent nothing is raised.
C2_RequiredFields ==
    ValidateReturned =>
        /\ error = Thrown(InputRequiredMessage) <=> AbsentOrEmpty(options, "input")
        /\ ~AbsentOrEmpty(options, "input")
           => (error = Thrown(OutputRequiredMessage) <=> AbsentOrEmpty(options, "output"))
        /\ (~AbsentOrEmpty(options, "input") /\ ~AbsentOrEmpty(options, "output")
                /\ "size" \notin DOMAIN options /\ "format" \notin DOMAIN options)
           => error = NoError

\* a call with a non-empty input and an output bound to the empty string
C2_Witness ==
    /\ ValidateReturned
    /\ options = [input |-> Str("/input/folder"), output |-> Str("")]
    /\ error = Thrown(OutputRequiredMessage)

\* C3: with input and output valid, the size error is raised exactly when size
\* is present, non-empty and parses to not-a-number or to a value <= 0 ("0",
\* "-100", "abc" fail); an absent or empty size passes, and so does "500".
C3_SizePositive ==
    (ValidateReturned /\ ~AbsentOrEmpty(options, "input") /\ ~AbsentOrEmpty(options, "output"))
    =>  /\ error = Thrown(SizeMessage) <=> SizeInvalid(options)
        /\ (Present(options, "size") /\ options["size"].value \in {"0", "-100", "abc"})
           => error = Thrown(SizeMessage)
        /\ (AbsentOrEmpty(options, "size")
                \/ (Present(options, "size") /\ options["size"].value = "500"))
           => error \in {NoError, Thrown(FormatMessage)}

\* a call whose size is "0"
C3_Witness ==
    /\ ValidateReturned
    /\ options = [input |-> Str("x"), output |-> Str("x"), size |-> Str("0")]
    /\ error = Thrown(SizeMessage)

\* C4: with input, output and size valid, the format error is raised exactly
\* when format is present (the empty string included) and its lower-cased value
\* is none of jpg, png, webp; an absent format passes, "JPG" passes, "" fails.
C4_FormatSupported ==
    (ValidateReturned /\ ~AbsentOrEmpty(options, "input") /\ ~AbsentOrEmpty(options, "output")
        /\ ~SizeInvalid(options))
    =>  /\ error = Thrown(FormatMessage) <=> FormatInvalid(options)
        /\ ~Present(options, "format") => error = NoError
        /\ (Present(options, "format") /\ options["format"].value = "JPG") => error = NoError
        /\ (Present(options, "format") /\ options["format"].value = "")
           => error = Thrown(FormatMessage)

\* a call whose format is the empty string
C4_Witness ==
    /\ ValidateReturned
    /\ options = [input |-> Str("x"), output |-> Str("x"), format |-> Str("")]
    /\ error = Thrown(FormatMessage)

(***************************************************************************)
(* Properties of parseArguments.                                           *)
(***************************************************************************)
ParseReturned == entry = "parseArguments" /\ pc = "done"

Aliases == {"-i", "-input", "-o", "-output", "-s", "-size", "-f", "-format"}

KeyOfAlias(t) ==
    CASE t \in {"-i", "-input"}  -> "input"
      [] t \in {"-o", "-output"} -> "output"
      [] t \in {"-s", "-size"}   -> "size"
      [] t \in {"-f", "-format"} -> "format"

\* the scan positions of a left-to-right scan from position p on that steps
\* over the token following an alias
RECURSIVE ScanPositions(_, _)
ScanPositions(a, p) ==
    IF p > Len(a) THEN {}
    ELSE {p} \cup ScanPositions(a, IF a[p] \in Aliases THEN p + 2 ELSE p + 1)

FlagPositions(a) == {p \in ScanPositions(a, 1) : a[p] \in Aliases}

\* the mapping the claim describes: each key that has a flag at a scan
\* position, bound to the token after its last such flag
BoundByFlags(a) ==
    [k \in {KeyOfAlias(a[p]) : p \in FlagPositions(a)} |->
        LET last == CHOOSE p \in FlagPositions(a) :
                        /\ KeyOfAlias(a[p]) = k
                        /\ \A q \in FlagPositions(a) : KeyOfAlias(a[q]) = k => q <= p
        IN  IF last + 1 <= Len(a) THEN Str(a[last + 1]) ELSE Undefined]

\* C5: parseArguments scans left to right and binds, for every scan position
\* holding an alias, the option's key to the following token verbatim (whatever
\* it is), resuming after the value; the result has exactly these keys, with no
\* default and no coercion.
C5_FlagsBindNextToken ==
    ParseReturned => options = BoundByFlags(args)

\* a flag whose value is itself an alias
C5_Witness ==
    /\ ParseReturned
    /\ args = <<"-i", "-o", "x">>
    /\ options = [input |-> Str("-o")]

\* C6: a token at a scan position that matches no alias adds no binding and
\* advances the scan by exactly one token, so that the token after it is still
\* examined as a flag: ["-unknown", "-i", "x"] binds input to "x", and
\* ["-i", "a", "-unknown", "value", "-o", "b"] yields exactly input and output.
C6_UnknownTokenIgnored ==
    /\ [](ParseReturned =>
            /\ args = <<"-unknown", "-i", "x">> => options = [input |-> Str("x")]
            /\ args = <<"-i", "/input/folder", "-unknown", "value", "-o", "/output/folder">>
               => options = [input |-> Str("/input/folder"), output |-> Str("/output/folder")])
    /\ [][(pc = "parse" /\ i < Len(args) /\ args[i + 1] \notin Aliases)
            => (options' = options /\ i' = i + 1 /\ pc' = "parse")]_vars

\* the scan went over an unknown token and then bound the flag after it
C6_Witness ==
    /\ ParseReturned
    /\ args = <<"-unknown", "-i", "x">>
    /\ options = [input |-> Str("x")]

(***************************************************************************)
(* Properties of resizeImages.                                             *)
(***************************************************************************)
ImageExtensions == {"jpg", "jpeg", "png"}

\* the text after the last "." of a directory entry
Extension(f) == SubSeq(f, LastDot(f) + 1, Len(f))

\* the text before the last "." of a directory entry
Stem(f) == SubSeq(f, 1, LastDot(f) - 1)

\* a qualifying file: an entry whose extension matches the image extensions,
\* whatever its case
Qualifies(f) == LastDot(f) # 0 /\ ToLowerCase(Extension(f)) \in ImageExtensions

QualifyingIndices(fs) == {k \in 1..Len(fs) : Qualifies(fs[k])}

NoneQualifies(fs) == \A k \in 1..Len(fs) : ~Qualifies(fs[k])

FormatSupplied == call.outputFormat # Null

\* the destination the claim describes: the extension replaced by the
\* requested format, the source name when there is none
ExpectedDestination(f) ==
    IF FormatSupplied
    THEN call.outputFolder \o "/" \o Stem(f) \o "." \o call.outputFormat.value
    ELSE call.outputFolder \o "/" \o f

ExpectedDescriptor(f) == Str("Resized " \o f \o " -> " \o ExpectedDestination(f))

AllInvocationsSucceeded ==
    /\ listing = "done"
    /\ Len(tasks) >= 1
    /\ \A k \in 1..Len(tasks) : tasks[k].state = "fulfilled"

\* C7: with N >= 1 qualifying files and all N invocations successful,
\* resizeImages resolves with exactly N success descriptors, one per qualifying
\* file, each naming the source file and its destination: the source name with
\* its extension replaced by the requested format, or unchanged without one.
C7_AllSucceedDescriptors ==
    AllInvocationsSucceeded =>
        /\ promise.state = "fulfilled"
        /\ promise.value.type = "array"
        /\ Len(promise.value.items) = Cardinality(QualifyingIndices(files))
        /\ {promise.value.items[k] : k \in 1..Len(promise.value.items)}
              = {ExpectedDescriptor(files[k]) : k \in QualifyingIndices(files)}

\* an entry whose only "." is its first character
DotFile(f) == LastDot(f) = 1

\* the part of C7 the code meets: the same statement for listings without an
\* entry like ".png", and, for such an entry, the format appended to its name
C7_ExceptDotFiles ==
    AllInvocationsSucceeded =>
        /\ promise.state = "fulfilled"
        /\ promise.value.type = "array"
        /\ Len(promise.value.items) = Cardinality(QualifyingIndices(files))
        /\ {promise.value.items[k] : k \in 1..Len(promise.value.items)}
              = {IF DotFile(files[k]) /\ FormatSupplied
                 THEN Str("Resized " \o files[k] \o " -> " \o call.outputFolder \o "/"
                          \o files[k] \o "." \o call.outputFormat.value)
                 ELSE ExpectedDescriptor(files[k]) : k \in QualifyingIndices(files)}

\* C8: whenever a per-file task has failed, the overall result is a failure,
\* never a success list: it carries the error (file name and tool message) of
\* the task that failed first in time, whatever its position in the listing and
\* whatever the sibling tasks did or still do.
C8_FirstFailureReported ==
    (\E k \in 1..Len(tasks) : tasks[k].state = "rejected") =>
        /\ firstFailed.task \in 1..Len(imageFiles)
        /\ promise = Rejected(Error("Error resizing " \o imageFiles[firstFailed.task]
                                    \o ": " \o firstFailed.message))

\* the second file failed first, the first file failed after it with another
\* message, the third is still in flight
C8_Witness ==
    /\ Len(tasks) = 3
    /\ firstFailed.task = 2
    /\ tasks[1].state = "rejected"
    /\ tasks[1].reason # tasks[2].reason
    /\ tasks[3].state = "pending"
    /\ promise = Rejected(tasks[2].reason)

\* C9: when the listing succeeds and holds no qualifying file, resizeImages
\* resolves with the 'no images found' message and the converter is never
\* invoked.
C9_NoImagesNoInvocation ==
    (listing = "done" /\ NoneQualifies(files)) =>
        /\ promise = Fulfilled(Str("No JPG or PNG images found in folder."))
        /\ execCalls = <<>>

\* a listing with an entry that is no image
C9_Witness ==
    /\ listing = "done"
    /\ files = <<"a.png.txt">>
    /\ promise.state = "fulfilled"

\* C10: when the listing itself fails, resizeImages fails with
\* 'Error reading folder: ...', nothing follows, and the converter is never
\* invoked.
C10_ReadErrorFatal ==
    listing = "failed" =>
        /\ \E message \in ReaddirErrors :
              promise = Rejected(Error("Error reading folder: " \o message))
        /\ execCalls = <<>>
        /\ tasks = <<>>
        /\ ~ENABLED Next

\* the readdir callback was called with an error
C10_Witness ==
    /\ listing = "failed"
    /\ promise.state = "rejected"

\* the number of exec calls made for the directory entry f
InvocationsOf(f) == Cardinality({j \in 1..Len(execCalls) : execCalls[j].file = f})

\* C11: the converter is invoked exactly once for each listing entry whose
\* extension matches jpg, jpeg or png whatever its case, and never for another
\* entry; an entry that does not match causes no error (only a failed
\* invocation makes the result a failure); and once made, the invocations are
\* never added to or repeated, whatever their outcomes.
C11_OncePerQualifyingEntry ==
    /\ [](/\ listing # "done" => execCalls = <<>>
          /\ listing = "done" =>
                /\ \A k \in 1..Len(files) :
                      InvocationsOf(files[k]) = IF Qualifies(files[k]) THEN 1 ELSE 0
                /\ Len(execCalls) = Cardinality(QualifyingIndices(files))
                /\ promise.state = "rejected"
                   => \E k \in 1..Len(tasks) : tasks[k].state = "rejected")
    /\ [][listing = "done" => execCalls' = execCalls]_vars

\* a listing with an entry that does not match between two that do; one
\* invocation failed, the other succeeded
C11_Witness ==
    /\ listing = "done"
    /\ files = <<"B.JPEG", "a.png.txt", ".png">>
    /\ Len(execCalls) = 2
    /\ tasks[1].state = "rejected"
    /\ tasks[2].state = "fulfilled"

(***************************************************************************)
(* Properties of the main block.                                           *)
(***************************************************************************)
\* the main block went past validateArguments without a throw
MainValidated == entry = "main" /\ pc = "prepare"

ArgumentErrorMessages ==
    {InputRequiredMessage, OutputRequiredMessage, SizeMessage, FormatMessage}

\* validateArguments raised an argument error in the main block
ArgumentErrorRaised ==
    entry = "main" /\ error.threw /\ error.message \in ArgumentErrorMessages

\* C12: in the main block, when validateArguments raises an argument error
\* (as it does for every invalid options object), the process prints the error
\* and the help text and exits with a non-zero code, and nothing else is done:
\* resizeImages is not called, so the output folder is neither checked nor
\* created, the input folder is not listed and the converter is not invoked.
C12_ArgumentErrorStopsMain ==
    /\ [](MainValidated => FirstViolation(options) = NoError)
    /\ [](ArgumentErrorRaised =>
            /\ error = FirstViolation(options)
            /\ pc = "exited"
            /\ exitCode # 0
            /\ stdout = <<>>
            /\ Len(stderr) = 2
            /\ stderr[1] = [kind |-> "error", text |-> "ERROR: " \o error.message]
            /\ stderr[2].kind = "help"
            /\ call = NoCall
            /\ mkdirCalled = FALSE
            /\ listing = "idle"
            /\ execCalls = <<>>
            /\ ~ENABLED Next)
    /\ [][(entry = "main" /\ pc = "validate" /\ pc' = "exited")
            => dirExists' = dirExists]_vars

\* a command line without an input folder: the input-required message and the
\* help text are printed, the missing output folder was not created
C12_Witness ==
    /\ entry = "main"
    /\ pc = "exited"
    /\ args = <<"-o", "out", "-s", "abc">>
    /\ error = Thrown(InputRequiredMessage)
    /\ Len(stderr) = 2
    /\ dirExists = FALSE

\* the outcomes of the orchestrator
NoImagesOutcome == listing = "done" /\ NoneQualifies(files)

FailureOutcome ==
    listing = "failed" \/ \E k \in 1..Len(tasks) : tasks[k].state = "rejected"

\* C13: in the main block, once validation has passed, the exit status follows
\* the outcome of the orchestrator: no qualifying image prints one
\* informational message and exits with 0; all conversions succeeding prints
\* exactly one success line per converted file, in the order of the files, and
\* exits with 0; a conversion failure or a directory-read error prints one
\* error and exits with a non-zero code, with no success line; and nothing is
\* printed while the orchestrator has no outcome.
C13_ExitStatusFollowsOutcome ==
    (entry = "main" /\ listing # "idle") =>
        /\ NoImagesOutcome =>
              /\ pc = "exited"
              /\ exitCode = 0
              /\ stdout = <<[kind |-> "info", text |-> "No JPG or PNG images found in folder."]>>
              /\ stderr = <<>>
        /\ AllInvocationsSucceeded =>
              /\ pc = "exited"
              /\ exitCode = 0
              /\ Len(stdout) = Cardinality(QualifyingIndices(files))
              /\ \A k \in 1..Len(stdout) :
                    stdout[k] = [kind |-> "success",
                                 text |-> "Resized " \o imageFiles[k] \o " -> "
                                          \o execCalls[k].outputPath]
              /\ stderr = <<>>
        /\ FailureOutcome =>
              /\ pc = "exited"
              /\ exitCode # 0
              /\ Len(stderr) = 1
              /\ stderr[1].kind = "error"
              /\ stderr[1].text = "ERROR: " \o promise.reason.message
              /\ stdout = <<>>
        /\ ~(NoImagesOutcome \/ AllInvocationsSucceeded \/ FailureOutcome) =>
              /\ pc # "exited"
              /\ stdout = <<>>
              /\ stderr = <<>>

\* the first conversion succeeded, the second failed: the process exited with
\* code 1 and without a success line, the third conversion still running
C13_Witness ==
    /\ entry = "main"
    /\ pc = "exited"
    /\ Len(tasks) = 3
    /\ tasks[1].state = "fulfilled"
    /\ tasks[2].state = "rejected"
    /\ tasks[3].state = "pending"
    /\ exitCode = 1
    /\ stdout = <<>>

\* all three conversions succeeded: three success lines, exit code 0
C13_WitnessSuccess ==
    /\ entry = "main"
    /\ pc = "exited"
    /\ Len(tasks) = 3
    /\ Len(stdout) = 3
    /\ exitCode = 0

\* the main block calls resizeImages
HandedOver == entry = "main" /\ pc = "resize"

\* what the command line binds a key to, Undefined when it has no flag for it
Supplied(key) ==
    IF key \in DOMAIN BoundByFlags(args) THEN BoundByFlags(args)[key] ELSE Undefined

\* a key is supplied when a flag binds it to a non-empty value
IsSupplied(key) == Supplied(key) # Undefined /\ Supplied(key).value # ""

\* a Number that is a positive integer
PositiveInteger(n) ==
    \/ n.class = "integer" /\ n.value > 0
    \/ n.class = "large" /\ ~n.negative

WidthAsSupplied ==
    call.outputWidth = IF IsSupplied("size") THEN ParseInt(Supplied("size").value)
                       ELSE Number(350)

FormatAsSupplied ==
    /\ call.outputFormat \in {Null, Str("jpg"), Str("png"), Str("webp")}
    /\ call.outputFormat = Null <=> ~IsSupplied("format")

\* C14: for every command line on which parseArguments and validateArguments
\* raise no error, the width handed to resizeImages is a positive integer: the
\* integer parse of the supplied size when -s/-size has a non-empty value, the
\* default 350 when size is not supplied (absent, empty, or a trailing flag);
\* and the format handed over is null or one of jpg, png, webp in lower case.
C14_WidthAndFormatHandedOver ==
    HandedOver =>
        /\ PositiveInteger(call.outputWidth)
        /\ WidthAsSupplied
        /\ FormatAsSupplied

\* the part of C14 the code meets: the same statement, but a size whose integer
\* parse is beyond the finite Numbers is handed over as Infinity
C14_ExceptInfiniteWidth ==
    HandedOver =>
        /\ PositiveInteger(call.outputWidth) \/ call.outputWidth = Infinity(FALSE)
        /\ call.outputWidth = Infinity(FALSE) => Len(Supplied("size").value) > 309
        /\ WidthAsSupplied
        /\ FormatAsSupplied

(***************************************************************************)
(* Properties of the per-file tasks.                                       *)
(***************************************************************************)
Dispatched == listing = "done" /\ imageFiles # <<>>

\* the child process of task k comes to its end
ConverterCompletes(k) ==
    ConversionFailed(k) \/ ConversionSucceeded(k) \/ ConverterOrphanExits(k)

\* C15: there is no cancellation.  Once the tasks are dispatched every
\* qualifying file has its converter started, whatever failed since; a
\* converter that runs can always run to its own completion, also after the
\* overall failure was reported (and after the main block left with code 1),
\* and is never taken back or restarted; and the completions that follow a
\* reported failure add nothing to it.
C15_NoCancellation ==
    /\ [](Dispatched =>
            /\ Len(converters) = Cardinality(QualifyingIndices(files))
            /\ Len(tasks) = Len(converters)
            /\ \A k \in 1..Len(converters) :
                  /\ converters[k] = "running" => ENABLED ConverterCompletes(k)
                  /\ tasks[k].state # "pending" => converters[k] = "exited"
                  /\ (converters[k] = "exited" /\ tasks[k].state = "pending")
                     => (entry = "main" /\ pc = "exited"))
    /\ [][Dispatched =>
            /\ Len(converters') = Len(converters)
            /\ \A k \in 1..Len(converters) :
                  converters[k] = "exited" => converters'[k] = "exited"
            /\ promise.state = "rejected" => (promise' = promise /\ UNCHANGED mainVars)]_vars

\* the second task failed first and the failure was reported; the first and
\* the third converter ran on and failed after it
C15_Witness ==
    /\ entry = "resizeImages"
    /\ Len(tasks) = 3
    /\ firstFailed.task = 2
    /\ \A k \in 1..3 : converters[k] = "exited" /\ tasks[k].state = "rejected"
    /\ promise = Rejected(tasks[2].reason)
    /\ tasks[1].reason # tasks[2].reason

\* the main block left with code 1 at the first failure; the converter of the
\* second file ran to its end after that
C15_WitnessMain ==
    /\ entry = "main"
    /\ pc = "exited"
    /\ Len(tasks) = 2
    /\ tasks[1].state = "rejected"
    /\ tasks[2].state = "pending"
    /\ converters[2] = "exited"

\* the converter of some task has not completed
SomeConverterRunning == \E k \in 1..Len(converters) : converters[k] = "running"

\* C16 as stated: no timeout is enforced; as long as the invocation of one
\* qualifying file has not completed, its task is not settled and resizeImages
\* has produced no outcome, neither a success list nor a failure, whatever the
\* other tasks did.
C16_HangBlocksEveryOutcome ==
    SomeConverterRunning =>
        /\ \A k \in 1..Len(converters) :
              converters[k] = "running" => tasks[k].state = "pending"
        /\ promise.state = "pending"

\* C16, amended: no timeout is enforced, a task is settled by the completion
\* of its own invocation and by nothing else; as long as the invocation of one
\* qualifying file has not completed, its task is not settled and resizeImages
\* has produced no success list, and it has produced no outcome at all unless
\* another task failed: then the failure of that task is the outcome.
C16_HangBlocksSuccess ==
    /\ [](\A k \in 1..Len(converters) :
            converters[k] = "running" =>
                /\ tasks[k].state = "pending"
                /\ promise.state # "fulfilled"
                /\ promise.state = "pending"
                   <=> \A j \in 1..Len(tasks) : tasks[j].state # "rejected")
    /\ [][\A k \in 1..Len(tasks) :
            (tasks[k].state = "pending" /\ tasks'[k].state # "pending")
            => (converters[k] = "running" /\ converters'[k] = "exited")]_vars

\* the second of two invocations succeeded, the first has not completed:
\* there is no outcome
C16_Witness ==
    /\ entry = "resizeImages"
    /\ Len(tasks) = 2
    /\ converters[1] = "running"
    /\ tasks[2].state = "fulfilled"
    /\ promise.state = "pending"

(***************************************************************************)
(* The states of a run of resizeImages.  The folder is ensured in the step *)
(* that requests the listing, and the tasks are dispatched in the step     *)
(* that starts to wait for them, so DirectoryEnsured and Dispatching are   *)
(* passed inside these steps.  A failure ends the run where it happens:    *)
(* Threw (mkdirSync) and ReadError (readdir).                              *)
(***************************************************************************)
Stage ==
    CASE listing = "idle" /\ mkdirCalled      -> "Threw"
      [] listing = "idle" /\ ~mkdirCalled     -> "Idle"
      [] listing = "pending"                  -> "Listing"
      [] listing = "failed"                   -> "ReadError"
      [] listing = "done" /\ tasks = <<>>     -> "NoImages"
      [] listing = "done" /\ tasks # <<>>     ->
            CASE promise.state = "pending"    -> "AwaitingAll"
              [] promise.state = "fulfilled"  -> "AllSucceeded"
              [] promise.state = "rejected"   -> "AnyFailed"

TerminalStages == {"Threw", "ReadError", "NoImages", "AllSucceeded", "AnyFailed"}

StageOrder ==
    {<<"Idle", "Listing">>, <<"Idle", "Threw">>,
     <<"Listing", "NoImages">>, <<"Listing", "AwaitingAll">>, <<"Listing", "ReadError">>,
     <<"AwaitingAll", "AllSucceeded">>, <<"AwaitingAll", "AnyFailed">>}

\* C17: every run of resizeImages follows the order Idle -> DirectoryEnsured ->
\* Listing -> {NoImages | Dispatching -> AwaitingAll -> {AllSucceeded |
\* AnyFailed}}, a failure ending the run where it happens: the output folder
\* is ensured before the listing is requested, no converter is invoked before
\* the listing has completed, and an outcome, once reported, is never changed
\* and never reported again by the completions and failures that follow.
C17_StateOrder ==
    /\ [](/\ listing # "idle" => dirExists
          /\ execCalls # <<>> => listing = "done"
          /\ Stage \in {"AwaitingAll", "AllSucceeded", "AnyFailed"}
             => Len(execCalls) = Len(tasks)
          /\ Stage = "AllSucceeded" <=> AllInvocationsSucceeded
          /\ Stage = "AnyFailed" <=> \E k \in 1..Len(tasks) : tasks[k].state = "rejected")
    /\ [][/\ Stage' # Stage => <<Stage, Stage'>> \in StageOrder
          /\ (Stage = "Idle" /\ Stage' = "Listing") => (dirExists' /\ execCalls' = <<>>)
          /\ Stage \in TerminalStages
             => (promise' = promise /\ all' = all /\ UNCHANGED mainVars)]_vars

\* two tasks: the first failed and the failure was reported, the second failed
\* after it and left the outcome as it was
C17_Witness ==
    /\ entry = "resizeImages"
    /\ Stage = "AnyFailed"
    /\ Len(tasks) = 2
    /\ firstFailed.task = 1
    /\ tasks[2].state = "rejected"
    /\ promise = Rejected(tasks[1].reason)
    /\ tasks[2].reason # tasks[1].reason

\* C18: the tasks of one run share no mutable state: whatever the listing and
\* the requested format (or none), two distinct qualifying files are never
\* given the same destination path, so no two tasks of a run write the same
\* output file.
C18_DistinctDestinations ==
    \A j, k \in 1..Len(execCalls) :
        j # k => execCalls[j].outputPath # execCalls[k].outputPath

\* the part of C18 the code meets: without a requested format the destinations
\* of a run are distinct, and with one, two files share their destination
\* exactly when they have the same name up to the extension
C18_DistinctUpToExtension ==
    \A j, k \in 1..Len(execCalls) :
        j # k =>
            /\ execCalls[j].file # execCalls[k].file
            /\ execCalls[j].inputPath # execCalls[k].inputPath
            /\ ~FormatSupplied => execCalls[j].outputPath # execCalls[k].outputPath
            /\ FormatSupplied =>
                  (execCalls[j].outputPath = execCalls[k].outputPath
                   <=> NameWithoutExt(execCalls[j].file) = NameWithoutExt(execCalls[k].file))

\* the position in the listing fs of its n-th qualifying entry
NthQualifying(fs, n) ==
    CHOOSE k \in QualifyingIndices(fs) :
        Cardinality({j \in QualifyingIndices(fs) : j <= k}) = n

\* descriptor d is the success descriptor of the file f
DescribesFile(d, f) ==
    /\ d.type = "string"
    /\ Len(d.value) > Len(f) + 12
    /\ SubSeq(d.value, 1, Len(f) + 12) = "Resized " \o f \o " -> "

\* C19: when all tasks succeed, the list resizeImages returns has the success
\* descriptors in the order of the qualifying files in the listing, whatever
\* the order in which the invocations complete: the i-th descriptor is that of
\* the i-th qualifying file.
C19_ListingOrder ==
    AllInvocationsSucceeded =>
        /\ promise.state = "fulfilled"
        /\ promise.value.type = "array"
        /\ Len(promise.value.items) = Cardinality(QualifyingIndices(files))
        /\ \A n \in 1..Len(promise.value.items) :
              DescribesFile(promise.value.items[n], files[NthQualifying(files, n)])

\* three qualifying files of which the first was the last to complete
C19_Witness ==
    /\ AllInvocationsSucceeded
    /\ Len(tasks) = 3
    /\ lastCompleted = 1
    /\ DescribesFile(promise.value.items[1], files[1])
    /\ DescribesFile(promise.value.items[3], files[3])

(***************************************************************************)
(* Termination of resizeImages.                                            *)
(***************************************************************************)
Settled == promise.state \in {"fulfilled", "rejected"}

\* the four outcomes of a run
ReadErrorOutcome == promise.state = "rejected" /\ listing = "failed"

NoImagesResultOutcome ==
    promise.state = "fulfilled" /\ promise.value.type = "string" /\ imageFiles = <<>>

SuccessListOutcome ==
    promise.state = "fulfilled" /\ promise.value.type = "array" /\ imageFiles # <<>>

ConversionFailureOutcome == promise.state = "rejected" /\ listing = "done"

OutcomesReached ==
    Cardinality({n \in 1..4 :
                    \/ n = 1 /\ ReadErrorOutcome
                    \/ n = 2 /\ NoImagesResultOutcome
                    \/ n = 3 /\ SuccessListOutcome
                    \/ n = 4 /\ ConversionFailureOutcome})

\* C20: when the listing completes and every dispatched invocation completes,
\* a run of resizeImages that requested the listing comes to exactly one
\* outcome among the directory-read error, the no-images result, the full
\* success list and the failure: it does not wait for its tasks forever (as
\* long as there is no outcome a callback is still to come), and it reports no
\* second outcome.
C20_ExactlyOneOutcome ==
    /\ (listing = "pending") ~> Settled
    /\ [](listing = "pending" => ENABLED ReaddirCallback)
    /\ []((listing = "done" /\ ~Settled)
            => \E k \in 1..Len(tasks) : ENABLED ExecCallback(k))
    /\ [](Settled => OutcomesReached = 1)
    /\ [](~Settled => OutcomesReached = 0)
    /\ [][Settled => promise' = promise]_vars

\* three invocations completed, the second one last, and the success list is
\* the outcome
C20_Witness ==
    /\ entry = "resizeImages"
    /\ Len(converters) = 3
    /\ \A k \in 1..3 : converters[k] = "exited"
    /\ lastCompleted = 2
    /\ SuccessListOutcome

(***************************************************************************)
(* A flag with no value after it, through parseArguments and               *)
(* validateArguments.                                                      *)
(***************************************************************************)
\* the last token of a is examined as a flag and is an alias
TrailingFlag(a) == Len(a) > 0 /\ Len(a) \in FlagPositions(a)

TrailingKey(a) == KeyOfAlias(a[Len(a)])

\* the options object o without the key
Without(o, key) == [k \in DOMAIN o \ {key} |-> o[k]]

\* parseArguments has returned, on its own or in the main block
Parsed ==
    \/ entry = "parseArguments" /\ pc = "done"
    \/ entry = "main" /\ pc = "validate"

\* the main block is past validateArguments
MainPastValidation == entry = "main" /\ pc \notin {"parse", "validate"}

\* what error e says of the key of the trailing flag of a, each key taken by
\* itself: the required-field error of input or output, no size error, no
\* format error
RaisesOwnError(a, e) ==
    CASE TrailingKey(a) = "input"  -> e = Thrown(InputRequiredMessage)
      [] TrailingKey(a) = "output" -> e = Thrown(OutputRequiredMessage)
      [] TrailingKey(a) = "size"   -> e # Thrown(SizeMessage)
      [] TrailingKey(a) = "format" -> e # Thrown(FormatMessage)

\* the same with the order of the checks: a trailing output flag raises the
\* output-required error when input is supplied and not empty, and the
\* input-required error otherwise
RaisesErrorInOrder(a, o, e) ==
    CASE TrailingKey(a) = "input"  -> e = Thrown(InputRequiredMessage)
      [] TrailingKey(a) = "output" ->
            e = Thrown(IF AbsentOrEmpty(o, "input") THEN InputRequiredMessage
                       ELSE OutputRequiredMessage)
      [] TrailingKey(a) = "size"   -> e # Thrown(SizeMessage)
      [] TrailingKey(a) = "format" -> e # Thrown(FormatMessage)

\* parseArguments binds the key of a trailing flag to undefined and raises
\* no error
TrailingFlagBoundUndefined ==
    (Parsed /\ TrailingFlag(args)) =>
        /\ TrailingKey(args) \in DOMAIN options
        /\ options[TrailingKey(args)] = Undefined
        /\ error = NoError

\* validateArguments gives an object with a key bound to undefined the result
\* it gives the object without the key
UndefinedAsNotSupplied ==
    /\ ValidateReturned =>
            \A key \in DOMAIN options :
                options[key] = Undefined => error = validateArguments(Without(options, key))
    /\ (Parsed /\ TrailingFlag(args)) =>
            validateArguments(options) = validateArguments(Without(options, TrailingKey(args)))

\* C21, as stated: a flag that is the last token examined binds its key to
\* undefined without error; validateArguments treats the key as not supplied;
\* a trailing -i raises the input-required error, a trailing -o the
\* output-required error, a trailing -s no size error and a trailing -f no
\* format error.
C21_TrailingFlagRaisesOwnError ==
    /\ TrailingFlagBoundUndefined
    /\ UndefinedAsNotSupplied
    /\ (Parsed /\ TrailingFlag(args)) => RaisesOwnError(args, validateArguments(options))
    /\ (MainPastValidation /\ TrailingFlag(args)) => RaisesOwnError(args, error)

\* C21, with the order of the checks: a flag that is the last token examined
\* binds its key to undefined without error; validateArguments treats the key
\* as not supplied; a trailing -i raises the input-required error, a trailing
\* -o the output-required error unless input is missing or empty (then the
\* input-required error, which comes first), a trailing -s no size error and
\* a trailing -f no format error.
C21_TrailingFlagAsNotSupplied ==
    /\ TrailingFlagBoundUndefined
    /\ UndefinedAsNotSupplied
    /\ (Parsed /\ TrailingFlag(args))
            => RaisesErrorInOrder(args, options, validateArguments(options))
    /\ (MainPastValidation /\ TrailingFlag(args))
            => RaisesErrorInOrder(args, options, error)

\* the main block run with -o as the last token: output is bound to undefined
\* and the output-required error is raised
C21_Witness ==
    /\ entry = "main"
    /\ pc = "exited"
    /\ args = <<"-i", "in", "-o">>
    /\ options = [input |-> Str("in"), output |-> Undefined]
    /\ error = Thrown(OutputRequiredMessage)

\* the main block run with -s as the last token: size is bound to undefined
\* and resizeImages is called with the default width
C21_WitnessSize ==
    /\ entry = "main"
    /\ pc = "resize"
    /\ TrailingFlag(args)
    /\ TrailingKey(args) = "size"
    /\ options["size"] = Undefined
    /\ error = NoError
    /\ call.outputWidth = Number(SizeDefaultValue)

============================================================================
